---- MODULE Spec2Model ----
(***************************************************************************)
(* The blog backend of src/__main__.py: two SQLite tables (post, comment), *)
(* one HTTP handler per route, and the process entry point.                *)
(*                                                                         *)
(* A request is handled in one session that commits once, so every handler *)
(* is one atomic action; the session is released once the handler has      *)
(* returned.  The state is the two tables, the request in flight (its      *)
(* route, its path parameter and, for a PATCH, its field names) and its    *)
(* response, and, for the entry point, the environment and the address the *)
(* listener was given.  Request bodies are well-formed: a field's value    *)
(* has the field's type.                                                   *)
(***************************************************************************)
EXTENDS Integers, Sequences, FiniteSets, TLC

\* Largest primary key the model lets a table hold.
MaxId == 2
\* Longest value of the PORT environment variable, in characters.
MaxPortLen == 4

\* Values of a post's text columns (title, content).
Texts == {"T", "New"}
\* Values of a comment's text column (content).
CommentTexts == {"hello"}
\* Primary keys a row can have.
Ids == 1..MaxId
\* Path parameters: every key a row can have, and one that no row ever has.
PathIds == 1..(MaxId + 1)
\* Characters of a PORT value: digits and one that is no digit.
Chars == {"0", "8", "x"}
\* Values of the HOST environment variable.
Hosts == {"127.0.0.1", "0.0.0.0"}

VARIABLES posts, comments, req, resp, environ, listener, pc

vars == <<posts, comments, req, resp, environ, listener, pc>>

store == <<posts, comments>>

----------------------------------------------------------------------------
(* Rows, sessions and responses *)

\* Post with the two text arguments exchanged.
Post_swapped(id, title, content) == [id |-> id, title |-> content, content |-> title]

\* class Post: a row of the post table.
Post(id, title, content) == [id |-> id, title |-> title, content |-> content]

\* class Comment: a row of the comment table.
Comment(id, post_id, content) == [id |-> id, post_id |-> post_id, content |-> content]

PostFields == {"id", "title", "content"}

CommentFields == {"id", "post_id", "content"}

\* The keys of a table's rows.
Keys(table) == {r.id : r \in table}

Max(S) == CHOOSE m \in S : \A x \in S : x <= m

\* The key SQLite gives a row inserted with id = None into a table whose
\* INTEGER PRIMARY KEY column is not AUTOINCREMENT: one past the largest key.
NextId(table) == IF table = {} THEN 1 ELSE Max(Keys(table)) + 1

\* session.get(Model, id), where the row exists.
Row(table, id) == CHOOSE r \in table : r.id = id

\* session.get(Model, id) is not None.
Exists(table, id) == id \in Keys(table)

\* DeleteRow without its WHERE clause: every row goes.
DeleteRow_all(table, row) == {}

\* session.delete(row); session.commit()
DeleteRow(table, row) == table \ {row}

\* session.add(row); session.commit() of a row the session loaded as old.
UpdateRow(table, old, new) == (table \ {old}) \cup {new}

\* session.add(row); session.commit() of a new row.
InsertRow(table, row) == table \cup {row}

\* The primary key constraint: the commit of old changed to new fails when
\* another row already has new's key.
KeyTaken(table, old, new) == new.id \in Keys(table \ {old})

\* ApplyPatch as a replacement: a text field the body leaves out is emptied.
ApplyPatch_clear(row, patch_data) ==
    [k \in DOMAIN row |-> IF k \in DOMAIN patch_data THEN patch_data[k]
                          ELSE IF k \in {"title", "content"} THEN "" ELSE row[k]]

\* for key, value in patch_data.items(): setattr(row, key, value)
ApplyPatch(row, patch_data) ==
    [k \in DOMAIN row |-> IF k \in DOMAIN patch_data THEN patch_data[k] ELSE row[k]]

\* ReplacePost without the assignment to content.
ReplacePost_title_only(db_post, title, content) == [db_post EXCEPT !.title = title]

\* db_post.title = post_data["title"]; db_post.content = post_data["content"]
ReplacePost(db_post, title, content) == [db_post EXCEPT !.title = title, !.content = content]

\* db_comment.post_id = comment_data["post_id"]; db_comment.content = comment_data["content"]
ReplaceComment(db_comment, post_id, content) ==
    [db_comment EXCEPT !.post_id = post_id, !.content = content]

\* CommentsOfPost filtering on the comment's own key.
CommentsOfPost_by_id(table, post_id) == {c \in table : c.id = post_id}

\* select(Comment).where(Comment.post_id == post_id)
CommentsOfPost(table, post_id) == {c \in table : c.post_id = post_id}

\* response_model=CreatePostModel: the fields title and content of the row.
CreatePostModel(row) == [title |-> row.title, content |-> row.content]

\* response_model=CreateCommentModel: the fields post_id and content of the row.
CreateCommentModel(row) == [post_id |-> row.post_id, content |-> row.content]

\* A handler that returns: status 200 and the serialized return value.
Ok(body) == [status |-> 200, body |-> body]

\* NotFound with another status code.
NotFound_400(detail) == [status |-> 400, body |-> [detail |-> detail]]

\* raise HTTPException(status_code=404, detail=...)
NotFound(detail) == [status |-> 404, body |-> [detail |-> detail]]

\* An exception the handler does not catch (the commit's IntegrityError).
ServerError == [status |-> 500, body |-> [detail |-> "Internal Server Error"]]

\* A list response.
Items(rows) == [items |-> rows]

\* A patch body: a mapping of some of the fields to values of their types.
PatchOf(K, id, ref, t, c) ==
    [k \in K |-> CASE k = "id" -> id
                   [] k = "post_id" -> ref
                   [] k = "title" -> t
                   [] k = "content" -> c]

PostPatches ==
    {PatchOf(K, i, i, t, c) : K \in SUBSET PostFields, i \in Ids, t \in Texts, c \in Texts}

CommentPatches ==
    {PatchOf(K, i, p, c, c) : K \in SUBSET CommentFields, i \in Ids, p \in Ids, c \in CommentTexts}

NoRequest == [op |-> "none"]

NoResponse == [status |-> 0, body |-> [detail |-> "none"]]

----------------------------------------------------------------------------
(* The entry point *)

IsDigit(ch) == ch \in {"0", "1", "2", "3", "4", "5", "6", "7", "8", "9"}

DigitValue(ch) ==
    CASE ch = "0" -> 0 [] ch = "1" -> 1 [] ch = "2" -> 2 [] ch = "3" -> 3
      [] ch = "4" -> 4 [] ch = "5" -> 5 [] ch = "6" -> 6 [] ch = "7" -> 7
      [] ch = "8" -> 8 [] ch = "9" -> 9

\* int(s) raises ValueError: s is empty or holds a character that is no digit.
IsValueError(s) == Len(s) = 0 \/ \E i \in 1..Len(s) : ~IsDigit(s[i])

RECURSIVE ParseInt(_)
\* int(s) of a string of decimal digits.
ParseInt(s) == IF Len(s) = 0 THEN 0
          ELSE 10 * ParseInt(SubSeq(s, 1, Len(s) - 1)) + DigitValue(s[Len(s)])

\* getenv(name, default)
Getenv(env, name, default) == IF name \in DOMAIN env THEN env[name] ELSE default

\* host = getenv("HOST", "127.0.0.1")
MainHost(env) == Getenv(env, "HOST", "127.0.0.1")

\* port = getenv("PORT", 8000); try: port = int(port); except ValueError: port = 8000
MainPort(env) ==
    IF "PORT" \notin DOMAIN env THEN 8000
    ELSE IF IsValueError(env["PORT"]) THEN 8000 ELSE ParseInt(env["PORT"])

\* uvicorn.run(app, host="127.0.0.1", port=8000)
UvicornRun(host, port) == [host |-> "127.0.0.1", port |-> 8000]

PortStrings == UNION {[1..n -> Chars] : n \in 0..MaxPortLen}

EnvOf(K, h, p) == [k \in K |-> IF k = "HOST" THEN h ELSE p]

Environments ==
    {EnvOf(K, h, p) : K \in SUBSET {"HOST", "PORT"}, h \in Hosts, p \in PortStrings}

NotListening == [host |-> "none", port |-> 0]

\* if __name__ == "__main__": ...
Main ==
    /\ pc = "main"
    /\ listener' = UvicornRun(MainHost(environ), MainPort(environ))
    /\ pc' = "idle"
    /\ UNCHANGED <<posts, comments, req, resp, environ>>

----------------------------------------------------------------------------
(* The handlers *)

\* A handler, started when no request is in flight (pc = "idle"), runs on
\* request r and ends with response s.
Handle(r, s) ==
    /\ req' = r
    /\ resp' = s
    /\ pc' = "done"
    /\ UNCHANGED <<environ, listener>>

\* post = session.get(Post, post_id); if post is None: raise ...; return post
read_post_response(table, post_id) ==
    IF ~Exists(table, post_id) THEN NotFound("Post not found")
    ELSE Ok(Row(table, post_id))

\* comment = session.get(Comment, comment_id); if comment is None: raise ...; return comment
read_comment_response(table, comment_id) ==
    IF ~Exists(table, comment_id) THEN NotFound("Comment not found")
    ELSE Ok(Row(table, comment_id))

\* read_comment_post_response looking the post up by the comment's key.
read_comment_post_by_comment_id(ctable, ptable, comment_id) ==
    IF ~Exists(ctable, comment_id) THEN NotFound("Comment not found")
    ELSE read_post_response(ptable, comment_id)

\* The two lookups of read_comment_post and what it returns.
read_comment_post_response(ctable, ptable, comment_id) ==
    IF ~Exists(ctable, comment_id) THEN NotFound("Comment not found")
    ELSE read_post_response(ptable, Row(ctable, comment_id).post_id)

\* POST /posts, PUT /posts
create_post(title, content) ==
    /\ pc = "idle"
    /\ NextId(posts) <= MaxId
    /\ LET post == Post(NextId(posts), title, content) IN
        /\ posts' = InsertRow(posts, post)
        /\ Handle([op |-> "create_post"],
                  Ok(CreatePostModel(post)))
    /\ UNCHANGED comments

\* GET /posts
read_posts ==
    /\ pc = "idle"
    /\ Handle([op |-> "read_posts"], Ok(Items(posts)))
    /\ UNCHANGED store

\* GET /posts/{post_id}
read_post(post_id) ==
    /\ pc = "idle"
    /\ Handle([op |-> "read_post", id |-> post_id], read_post_response(posts, post_id))
    /\ UNCHANGED store

\* PUT /posts/{post_id}
replace_post(post_id, title, content) ==
    /\ pc = "idle"
    /\ LET r == [op |-> "replace_post", id |-> post_id] IN
       IF ~Exists(posts, post_id)
       THEN /\ Handle(r, NotFound("Post not found"))
            /\ UNCHANGED store
       ELSE LET db_post == Row(posts, post_id)
                new == ReplacePost(db_post, title, content) IN
            /\ posts' = UpdateRow(posts, db_post, new)
            /\ Handle(r, Ok(new))
            /\ UNCHANGED comments

\* PATCH /posts/{post_id}
update_post(post_id, patch_data) ==
    /\ pc = "idle"
    /\ LET r == [op |-> "update_post", id |-> post_id, fields |-> DOMAIN patch_data] IN
       IF ~Exists(posts, post_id)
       THEN /\ Handle(r, NotFound("Post not found"))
            /\ UNCHANGED store
       ELSE LET db_post == Row(posts, post_id)
                new == ApplyPatch(db_post, patch_data) IN
            IF KeyTaken(posts, db_post, new)
            THEN /\ Handle(r, ServerError)
                 /\ UNCHANGED store
            ELSE /\ posts' = UpdateRow(posts, db_post, new)
                 /\ Handle(r, Ok(new))
                 /\ UNCHANGED comments

\* DELETE /posts/{post_id}
delete_post(post_id) ==
    /\ pc = "idle"
    /\ LET r == [op |-> "delete_post", id |-> post_id] IN
       IF ~Exists(posts, post_id)
       THEN /\ Handle(r, NotFound("Post not found"))
            /\ UNCHANGED store
       ELSE /\ posts' = DeleteRow(posts, Row(posts, post_id))
            /\ Handle(r, Ok([message |-> "Post deleted successfully"]))
            /\ UNCHANGED comments

\* GET /posts/{post_id}/comments
read_post_comments(post_id) ==
    /\ pc = "idle"
    /\ Handle([op |-> "read_post_comments", id |-> post_id],
              Ok(Items(CommentsOfPost(comments, post_id))))
    /\ UNCHANGED store

\* POST /comments, PUT /comments
create_comment(post_id, content) ==
    /\ pc = "idle"
    /\ NextId(comments) <= MaxId
    /\ LET comment == Comment(NextId(comments), post_id, content) IN
        /\ comments' = InsertRow(comments, comment)
        /\ Handle([op |-> "create_comment"],
                  Ok(CreateCommentModel(comment)))
    /\ UNCHANGED posts

\* GET /comments
read_comments ==
    /\ pc = "idle"
    /\ Handle([op |-> "read_comments"], Ok(Items(comments)))
    /\ UNCHANGED store

\* GET /comments/{comment_id}
read_comment(comment_id) ==
    /\ pc = "idle"
    /\ Handle([op |-> "read_comment", id |-> comment_id],
              read_comment_response(comments, comment_id))
    /\ UNCHANGED store

\* PUT /comments/{comment_id}
replace_comment(comment_id, post_id, content) ==
    /\ pc = "idle"
    /\ LET r == [op |-> "replace_comment", id |-> comment_id] IN
       IF ~Exists(comments, comment_id)
       THEN /\ Handle(r, NotFound("Comment not found"))
            /\ UNCHANGED store
       ELSE LET db_comment == Row(comments, comment_id)
                new == ReplaceComment(db_comment, post_id, content) IN
            /\ comments' = UpdateRow(comments, db_comment, new)
            /\ Handle(r, Ok(new))
            /\ UNCHANGED posts

\* PATCH /comments/{comment_id}
update_comment(comment_id, patch_data) ==
    /\ pc = "idle"
    /\ LET r == [op |-> "update_comment", id |-> comment_id, fields |-> DOMAIN patch_data] IN
       IF ~Exists(comments, comment_id)
       THEN /\ Handle(r, NotFound("Comment not found"))
            /\ UNCHANGED store
       ELSE LET db_comment == Row(comments, comment_id)
                new == ApplyPatch(db_comment, patch_data) IN
            IF KeyTaken(comments, db_comment, new)
            THEN /\ Handle(r, ServerError)
                 /\ UNCHANGED store
            ELSE /\ comments' = UpdateRow(comments, db_comment, new)
                 /\ Handle(r, Ok(new))
                 /\ UNCHANGED posts

\* DELETE /comments/{comment_id}
delete_comment(comment_id) ==
    /\ pc = "idle"
    /\ LET r == [op |-> "delete_comment", id |-> comment_id] IN
       IF ~Exists(comments, comment_id)
       THEN /\ Handle(r, NotFound("Comment not found"))
            /\ UNCHANGED store
       ELSE /\ comments' = DeleteRow(comments, Row(comments, comment_id))
            /\ Handle(r, Ok([message |-> "Comment deleted successfully"]))
            /\ UNCHANGED posts

\* GET /comments/{comment_id}/post
read_comment_post(comment_id) ==
    /\ pc = "idle"
    /\ Handle([op |-> "read_comment_post", id |-> comment_id],
              read_comment_post_response(comments, posts, comment_id))
    /\ UNCHANGED store

\* with Session(engine) as session: yield session -- the handler has returned,
\* the response is sent and the session is released.
get_session ==
    /\ pc = "done"
    /\ pc' = "idle"
    /\ req' = NoRequest
    /\ resp' = NoResponse
    /\ UNCHANGED <<posts, comments, environ, listener>>

----------------------------------------------------------------------------
(* Specifications *)

\* The server once it listens, on a new database, started with no variable set.
Init ==
    /\ posts = {}
    /\ comments = {}
    /\ req = NoRequest
    /\ resp = NoResponse
    /\ environ = EnvOf({}, "", <<>>)
    /\ listener = UvicornRun(MainHost(environ), MainPort(environ))
    /\ pc = "idle"

Next ==
    \/ \E t \in Texts, c \in Texts : create_post(t, c)
    \/ read_posts
    \/ \E i \in PathIds : read_post(i)
    \/ \E i \in PathIds, t \in Texts, c \in Texts : replace_post(i, t, c)
    \/ \E i \in PathIds, p \in PostPatches : update_post(i, p)
    \/ \E i \in PathIds : delete_post(i)
    \/ \E i \in PathIds : read_post_comments(i)
    \/ \E p \in Ids, c \in CommentTexts : create_comment(p, c)
    \/ read_comments
    \/ \E i \in PathIds : read_comment(i)
    \/ \E i \in PathIds, p \in Ids, c \in CommentTexts : replace_comment(i, p, c)
    \/ \E i \in PathIds, p \in CommentPatches : update_comment(i, p)
    \/ \E i \in PathIds : delete_comment(i)
    \/ \E i \in PathIds : read_comment_post(i)
    \/ get_session

Spec == Init /\ [][Next]_vars

\* The process before the entry point runs, in any environment.
InitMain ==
    /\ posts = {}
    /\ comments = {}
    /\ req = NoRequest
    /\ resp = NoResponse
    /\ environ \in Environments
    /\ listener = NotListening
    /\ pc = "main"

NextMain == Main

SpecMain == InitMain /\ [][NextMain]_vars

----------------------------------------------------------------------------
(* Properties *)

\* The handler of the request in flight has returned.
Done(op) == pc = "done" /\ req.op = op

PostItemOps == {"read_post", "replace_post", "update_post", "delete_post"}

CommentItemOps == {"read_comment", "replace_comment", "update_comment", "delete_comment"}

\* The rows of a table other than the one with key id.
Others(table, id) == {r \in table : r.id # id}

\* C1: creating a Post with title t and content c adds one row under a new
\* key, and fetching that key afterwards returns a record with title t and
\* content c.
C1_CreateThenRead ==
    [][(pc' = "done" /\ req'.op = "create_post") =>
         \A t \in Texts, c \in Texts :
            create_post(t, c) =>
               /\ Cardinality(Keys(posts') \ Keys(posts)) = 1
               /\ \A id \in Keys(posts') \ Keys(posts) :
                    LET fetched == read_post_response(posts', id) IN
                    /\ fetched.status = 200
                    /\ fetched.body.id = id
                    /\ fetched.body.title = t
                    /\ fetched.body.content = c]_vars

\* A post was created in a table that already held one.
C1_Witness ==
    /\ Done("create_post")
    /\ resp.status = 200
    /\ resp.body.title = "New"
    /\ resp.body.content = "T"
    /\ Cardinality(posts) = 2

\* C2: the response of a create operation is the created record with its
\* newly assigned id.
C2_CreateReturnsId ==
    /\ Done("create_post") =>
          /\ "id" \in DOMAIN resp.body
          /\ resp.body \in posts
    /\ Done("create_comment") =>
          /\ "id" \in DOMAIN resp.body
          /\ resp.body \in comments

\* C3: deleting a row that exists answers 200 with a message, removes that
\* row and no other, and a fetch of the same key afterwards answers 404;
\* for posts and for comments.
C3_DeleteThenRead ==
    [][/\ (pc' = "done" /\ req'.op = "delete_post") =>
            LET i == req'.id IN
            (delete_post(i) /\ Exists(posts, i)) =>
               /\ resp'.status = 200
               /\ DOMAIN resp'.body = {"message"}
               /\ ~Exists(posts', i)
               /\ posts' = Others(posts, i)
               /\ Cardinality(posts') = Cardinality(posts) - 1
               /\ read_post_response(posts', i).status = 404
       /\ (pc' = "done" /\ req'.op = "delete_comment") =>
            LET i == req'.id IN
            (delete_comment(i) /\ Exists(comments, i)) =>
               /\ resp'.status = 200
               /\ DOMAIN resp'.body = {"message"}
               /\ ~Exists(comments', i)
               /\ comments' = Others(comments, i)
               /\ Cardinality(comments') = Cardinality(comments) - 1
               /\ read_comment_response(comments', i).status = 404]_vars

\* A post was deleted and another post is still there.
C3_Witness ==
    /\ Done("delete_post")
    /\ resp.status = 200
    /\ ~Exists(posts, req.id)
    /\ posts # {}
    /\ comments # {}

\* C4: get, replace, partial update and delete of a key that names no row
\* answer 404 and leave both tables as they were; for posts and for comments.
C4_NotFoundChangesNothing ==
    [][/\ (pc' = "done" /\ req'.op \in PostItemOps /\ ~Exists(posts, req'.id)) =>
             /\ resp'.status = 404
             /\ resp'.body = [detail |-> "Post not found"]
             /\ posts' = posts
             /\ comments' = comments
       /\ (pc' = "done" /\ req'.op \in CommentItemOps /\ ~Exists(comments, req'.id)) =>
             /\ resp'.status = 404
             /\ resp'.body = [detail |-> "Comment not found"]
             /\ posts' = posts
             /\ comments' = comments]_vars

\* A partial update of a comment key that names no row, in a table with rows.
C4_Witness ==
    /\ Done("update_comment")
    /\ resp.status = 404
    /\ ~Exists(comments, req.id)
    /\ comments # {}
    /\ posts # {}

C6_ReplaceOverwrites ==
    [][(pc' = "done" /\ req'.op = "replace_post") =>
         LET i == req'.id IN
         \A t \in Texts, c \in Texts :
            (replace_post(i, t, c) /\ Exists(posts, i)) =>
               LET fetched == read_post_response(posts', i) IN
               /\ resp'.status = 200
               /\ Cardinality(posts') = Cardinality(posts)
               /\ Keys(posts') = Keys(posts)
               /\ fetched.status = 200
               /\ fetched.body.id = i
               /\ fetched.body.title = t
               /\ fetched.body.content = c]_vars

\* A post was replaced in a table of two posts.
C6_Witness ==
    /\ Done("replace_post")
    /\ resp.status = 200
    /\ resp.body.title = "New"
    /\ resp.body.content = "New"
    /\ Cardinality(posts) = 2

\* C7: listing the comments of post id answers 200 with exactly the comments
\* whose post_id is id: none when there are none, whether or not the post
\* exists.
C7_CommentsOfPost ==
    Done("read_post_comments") =>
       /\ resp.status = 200
       /\ resp.body.items \subseteq comments
       /\ \A c \in comments : c \in resp.body.items <=> c.post_id = req.id

\* The comments of a post that does not exist were listed: none, although
\* the table holds comments.
C7_Witness ==
    /\ Done("read_post_comments")
    /\ resp.body.items = {}
    /\ ~Exists(posts, req.id)
    /\ comments # {}

\* C8: deleting a post leaves every comment as it was; creating a comment
\* succeeds whether or not its post_id names a post; fetching the owning
\* post of a comment answers 404 when the comment is absent, 404 when no
\* post has the comment's post_id, and otherwise the post with that id.
C8_NoCascadeNoReferenceCheck ==
    [][/\ (pc' = "done" /\ req'.op = "delete_post") =>
            (delete_post(req'.id) => comments' = comments)
       /\ (pc' = "done" /\ req'.op = "create_comment") =>
            \A p \in Ids, c \in CommentTexts :
               create_comment(p, c) =>
                  /\ resp'.status = 200
                  /\ \E new \in comments' \ comments :
                       /\ new.post_id = p
                       /\ new.content = c
                       /\ comments' = comments \cup {new}
       /\ (pc' = "done" /\ req'.op = "read_comment_post") =>
            LET i == req'.id IN
            read_comment_post(i) =>
               IF ~Exists(comments, i)
               THEN resp' = [status |-> 404, body |-> [detail |-> "Comment not found"]]
               ELSE LET owner == {p \in posts : p.id = Row(comments, i).post_id} IN
                    IF owner = {}
                    THEN resp' = [status |-> 404, body |-> [detail |-> "Post not found"]]
                    ELSE resp'.status = 200 /\ resp'.body \in owner]_vars

\* The owning post of an existing comment was asked for and there is none.
C8_Witness ==
    /\ Done("read_comment_post")
    /\ Exists(comments, req.id)
    /\ ~Exists(posts, Row(comments, req.id).post_id)
    /\ resp.status = 404
    /\ posts # {}

\* C9: the listener is bound to the host and the port the environment
\* gives: HOST, or 127.0.0.1 when unset; PORT as an integer, or 8000 when
\* unset or no integer.
C9_ListensOnEnvironment ==
    pc = "idle" =>
       /\ listener.host = (IF "HOST" \in DOMAIN environ THEN environ["HOST"]
                           ELSE "127.0.0.1")
       /\ listener.port = (IF "PORT" \notin DOMAIN environ THEN 8000
                           ELSE IF IsValueError(environ["PORT"]) THEN 8000
                           ELSE ParseInt(environ["PORT"]))

\* C10: no two posts share an id, no two comments share an id, and no
\* operation changes the id of a row: a key of a table is still a key of it
\* after every step but the deletion of that key.
C10_IdsUniqueAndStable ==
    [][/\ \A p \in posts', q \in posts' : p.id = q.id => p = q
       /\ \A p \in comments', q \in comments' : p.id = q.id => p = q
       /\ \A k \in Keys(posts) \ Keys(posts') : req'.op = "delete_post" /\ req'.id = k
       /\ \A k \in Keys(comments) \ Keys(comments') :
            req'.op = "delete_comment" /\ req'.id = k]_vars

====
